---- MODULE Spec2Model ----
(***************************************************************************)
(* A model of nothing.js: the table of default "nothing" values, the       *)
(* lookups by_type / by_value, the predicate is_default, set_default,      *)
(* normalize, and the object utilities from_object, purification,          *)
(* shallow_merge, deep_merge and cut_default.                              *)
(*                                                                         *)
(* JavaScript values are records [t, n, s]: t is the kind of value, n its  *)
(* numeric payload (the number, the boolean as 0/1, the identity of a      *)
(* function, the length of an array, the heap address of an object) and s  *)
(* its text payload (the characters of a string, "NaN" for the number      *)
(* NaN).  Plain objects live in a heap: a sequence of cells, a cell being  *)
(* the object's own enumerable properties in insertion order.  Arrays are  *)
(* values here: no function of nothing.js reads an array beyond            *)
(* Array.isArray and .length, and none writes to one.                      *)
(***************************************************************************)
EXTENDS Integers, Sequences, FiniteSets, TLC

----------------------------------------------------------------------------
(* Bounds of the model. *)

\* Frames of the JavaScript call stack available to one public call: a
\* recursion that needs more ends in RangeError, as it does in the engine.
StackLimit == 5

\* Public calls one session makes.
MaxCalls == 2

----------------------------------------------------------------------------
(* JavaScript values. *)

Undef == [t |-> "undefined", n |-> 0, s |-> ""]

Null == [t |-> "null", n |-> 0, s |-> ""]

NaN == [t |-> "number", n |-> 0, s |-> "NaN"]

Str(chars) == [t |-> "string", n |-> 0, s |-> chars]

Num(k) == [t |-> "number", n |-> k, s |-> ""]

Bool(b) == [t |-> "boolean", n |-> IF b THEN 1 ELSE 0, s |-> ""]

Fn(id) == [t |-> "function", n |-> id, s |-> ""]

Arr(len) == [t |-> "array", n |-> len, s |-> ""]

Ref(addr) == [t |-> "object", n |-> addr, s |-> ""]

\* typeof value
TypeOf(value) ==
    IF value.t \in {"null", "array", "object"} THEN "object" ELSE value.t

\* ToBoolean as ?? would have it in place of ||: only undefined and null
\* give way to the right-hand side.
Truthy_nullish(value) == value.t \notin {"undefined", "null"}

\* ToBoolean(value), as the || operator applies it
Truthy(value) ==
    CASE value.t \in {"undefined", "null"} -> FALSE
      [] value.t = "number" -> value.s # "NaN" /\ value.n # 0
      [] value.t = "string" -> value.s # ""
      [] value.t = "boolean" -> value.n = 1
      [] OTHER -> TRUE

\* a === b: objects and functions by identity, NaN equal to nothing
StrictEq(a, b) == a = b /\ a # NaN

\* Array.isArray(value)
IsArray(value) == value.t = "array"

----------------------------------------------------------------------------
(* The heap of plain objects. *)

\* Own enumerable keys of a cell, in insertion order (for..in, Object.keys).
KeysOf(cell) == [i \in 1..Len(cell) |-> cell[i].k]

\* Object.prototype.hasOwnProperty.call(obj, key)
HasOwn(cell, key) == \E i \in 1..Len(cell) : cell[i].k = key

\* obj[key] for an own property, undefined when there is none
Get(cell, key) ==
    IF HasOwn(cell, key)
    THEN cell[CHOOSE i \in 1..Len(cell) : cell[i].k = key].v
    ELSE Undef

\* obj[key] = value: an existing key keeps its place, a new one goes last
Put(cell, key, value) ==
    IF HasOwn(cell, key)
    THEN [i \in 1..Len(cell) |->
            IF cell[i].k = key THEN [k |-> key, v |-> value] ELSE cell[i]]
    ELSE Append(cell, [k |-> key, v |-> value])

\* delete obj[key]
Del(cell, key) == SelectSeq(cell, LAMBDA e : e.k # key)

\* The heap after obj[key] = value on the object at addr.
Store(h, addr, key, value) == [h EXCEPT ![addr] = Put(h[addr], key, value)]

\* The heap after delete obj[key] on the object at addr.
Remove(h, addr, key) == [h EXCEPT ![addr] = Del(h[addr], key)]

----------------------------------------------------------------------------
(* typec.js, the type checks nothing.js imports. *)

\* typec.is_null(value): null, undefined and NaN
is_null(value) == value.t \in {"undefined", "null"} \/ value = NaN

\* typec.type_check(value, type): for "object" a keyed container (an object
\* that is neither null nor an array), for "string" a string
type_check(value, type) ==
    CASE type = "object" -> value.t = "object"
      [] type = "string" -> value.t = "string"
      [] OTHER -> TypeOf(value) = type

----------------------------------------------------------------------------
(* The table of defaults and the lookups. *)

\* const NOTHING = Object.freeze({...}): the own properties of the table.
\* Its "object" entry is the one prototype-free object at heap address 1,
\* its "function" entry the function with identity 0.
NOTHING ==
    [object |-> Ref(1),
     string |-> Str(""),
     number |-> Num(0),
     boolean |-> Bool(FALSE),
     array |-> Arr(0),
     function |-> Fn(0),
     null |-> Null,
     undefined |-> Undef]

\* NOTHING is an object literal, so a lookup that finds no own property goes
\* on to Object.prototype; two of its members, both functions, stand for all.
ObjectPrototype == [toString |-> Fn(1), constructor |-> Fn(2)]

\* The property key NOTHING[type] looks up: ToPropertyKey(type).  Keys of
\* numbers and objects are never names of the table and are left as "".
PropertyKey(type) ==
    CASE type.t = "string" -> type.s
      [] type.t \in {"undefined", "null"} -> type.t
      [] type.t = "boolean" -> IF type.n = 1 THEN "true" ELSE "false"
      [] type = NaN -> "NaN"
      [] OTHER -> ""

\* NOTHING[type]
NothingGet(type) ==
    LET key == PropertyKey(type) IN
    IF key \in DOMAIN NOTHING THEN NOTHING[key]
    ELSE IF key \in DOMAIN ObjectPrototype THEN ObjectPrototype[key]
    ELSE Undef

\* by_type(type): NOTHING[type] || NOTHING["undefined"]
by_type(type) ==
    IF Truthy(NothingGet(type)) THEN NothingGet(type) ELSE NOTHING["undefined"]

\* by_value(value): by_type(typeof value)
by_value(value) == by_type(Str(TypeOf(value)))

\* const do_nothing = by_type("function")
do_nothing == by_type(Str("function"))

\* const object = by_type("object")
object == by_type(Str("object"))

\* is_default without its branch for objects: a container goes to the
\* comparison of the primitives.
is_default_primitive(h, value) ==
    IF is_null(value) THEN TRUE
    ELSE IF IsArray(value) THEN value.n = 0
    ELSE StrictEq(value, by_value(value))

\* is_default(value), reading the heap h for Object.keys(value)
is_default(h, value) ==
    IF is_null(value) THEN TRUE
    ELSE IF IsArray(value) THEN value.n = 0
    ELSE IF TypeOf(value) = "object" THEN Len(KeysOf(h[value.n])) = 0
    ELSE StrictEq(value, by_value(value))

\* set_default(value, default_value)
set_default(h, value, default_value) ==
    IF ~is_default(h, value) THEN value ELSE default_value

\* normalize(value)
normalize(value) ==
    IF is_null(value) THEN by_type(Str("null")) ELSE value

----------------------------------------------------------------------------
(* The object utilities.  Each takes the heap and returns the outcome of   *)
(* the call: the heap it leaves, the value it returns and how it ended     *)
(* ("ok", or the error thrown).  A for..in loop visits the keys its object *)
(* had when the loop began, in insertion order, and passes over a key      *)
(* deleted since; fuel counts the stack frames left.                       *)

Return(h, value) == [h |-> h, r |-> value, st |-> "ok"]

Throw(h, error) == [h |-> h, r |-> Undef, st |-> error]

\* value, computed once, handed to Body: the result of a statement that the
\* statements after it read.
Then(value, Body(_)) == CHOOSE out \in {Body(x) : x \in {value}} : TRUE

\* The depth handed to a recursive call: deep === -1 ? -1 : deep - 1
NextDeep(deep) == IF deep = -1 THEN -1 ELSE deep - 1

\* DepthReached, were every negative depth unlimited.
DepthReached_zero(deep) == deep = 0

\* The depth test that ends a recursion: deep <= 0 && deep !== -1
DepthReached(deep) == deep <= 0 /\ deep # -1

RECURSIVE from_object_loop(_, _, _, _)
\* the loop of from_object over the rest of its property names
from_object_loop(h0, source, result, properties) ==
    Then(h0, LAMBDA h :
    IF properties = <<>> THEN Return(h, result)
    ELSE LET prop == Head(properties) IN
         IF ~type_check(prop, "string") THEN Throw(h, "TypeError")
         ELSE IF HasOwn(h[source.n], prop.s)
         THEN from_object_loop(
                  Store(h, result.n, prop.s, Get(h[source.n], prop.s)),
                  source, result, Tail(properties))
         ELSE from_object_loop(h, source, result, Tail(properties)))

\* from_object(source, ...properties)
from_object(h, source, properties) ==
    IF ~type_check(source, "object") THEN Throw(h, "TypeError")
    ELSE from_object_loop(h, source, object, properties)

RECURSIVE purification(_, _, _, _)
RECURSIVE purification_loop(_, _, _, _, _, _)
\* the loop of purification over the keys of source not yet visited
purification_loop(h0, source, deep, fuel, result, keys) ==
    Then(h0, LAMBDA h :
    IF keys = <<>> THEN Return(h, result)
    ELSE LET key == Head(keys)
             value == Get(h[source.n], key)
         IN
         IF ~HasOwn(h[source.n], key)
         THEN purification_loop(h, source, deep, fuel, result, Tail(keys))
         ELSE IF is_default(h, value)
         THEN purification_loop(h, source, deep, fuel, result, Tail(keys))
         ELSE IF type_check(value, "object")
         THEN Then(purification(h, value, NextDeep(deep), fuel - 1), LAMBDA sub :
              IF sub.st # "ok" THEN sub
              ELSE purification_loop(Store(sub.h, result.n, key, sub.r),
                                     source, deep, fuel, result, Tail(keys)))
         ELSE purification_loop(Store(h, result.n, key, value),
                                source, deep, fuel, result, Tail(keys)))

\* purification(source, deep)
purification(h, source, deep, fuel) ==
    IF fuel = 0 THEN Throw(h, "RangeError")
    ELSE IF DepthReached(deep) THEN Return(h, source)
    ELSE IF ~type_check(source, "object") THEN Throw(h, "TypeError")
    ELSE purification_loop(h, source, deep, fuel, object, KeysOf(h[source.n]))

RECURSIVE shallow_merge_loop(_, _, _, _)
\* the loop of shallow_merge over the keys of source not yet visited
shallow_merge_loop(h0, target, source, keys) ==
    Then(h0, LAMBDA h :
    IF keys = <<>> THEN Return(h, target)
    ELSE LET key == Head(keys) IN
         IF ~HasOwn(h[source.n], key)
         THEN shallow_merge_loop(h, target, source, Tail(keys))
         ELSE shallow_merge_loop(
                  Store(h, target.n, key, Get(h[source.n], key)),
                  target, source, Tail(keys)))

\* shallow_merge(target, source)
shallow_merge(h, target, source) ==
    IF ~(type_check(target, "object") /\ type_check(source, "object"))
    THEN Throw(h, "TypeError")
    ELSE shallow_merge_loop(h, target, source, KeysOf(h[source.n]))

RECURSIVE deep_merge(_, _, _, _, _)
RECURSIVE deep_merge_loop(_, _, _, _, _, _)
\* the loop of deep_merge over the keys of source not yet visited
deep_merge_loop(h0, target, source, deep, fuel, keys) ==
    Then(h0, LAMBDA h :
    IF keys = <<>> THEN Return(h, target)
    ELSE LET key == Head(keys)
             value == Get(h[source.n], key)
             existing == Get(h[target.n], key)
             \* target[key] || {}: a falsy existing value gives a new object
             h1 == IF Truthy(existing) THEN h ELSE Append(h, <<>>)
             into == IF Truthy(existing) THEN existing ELSE Ref(Len(h) + 1)
         IN
         IF ~HasOwn(h[source.n], key)
         THEN deep_merge_loop(h, target, source, deep, fuel, Tail(keys))
         ELSE IF type_check(value, "object") /\ ~IsArray(value)
         THEN Then(deep_merge(h1, into, value, NextDeep(deep), fuel - 1), LAMBDA sub :
              IF sub.st # "ok" THEN sub
              ELSE deep_merge_loop(Store(sub.h, target.n, key, sub.r),
                                   target, source, deep, fuel, Tail(keys)))
         ELSE deep_merge_loop(Store(h, target.n, key, value),
                              target, source, deep, fuel, Tail(keys)))

\* deep_merge(target, source, deep)
deep_merge(h, target, source, deep, fuel) ==
    IF fuel = 0 THEN Throw(h, "RangeError")
    ELSE IF DepthReached(deep) THEN Return(h, target)
    ELSE IF ~(type_check(target, "object") /\ type_check(source, "object"))
    THEN Throw(h, "TypeError")
    ELSE deep_merge_loop(h, target, source, deep, fuel, KeysOf(h[source.n]))

RECURSIVE cut_default(_, _, _, _)
RECURSIVE cut_default_loop(_, _, _, _, _)
\* the loop of cut_default over the keys of source not yet visited
cut_default_loop(h0, source, deep, fuel, keys) ==
    Then(h0, LAMBDA h :
    IF keys = <<>> THEN Return(h, Undef)
    ELSE LET key == Head(keys)
             value == Get(h[source.n], key)
         IN
         IF ~HasOwn(h[source.n], key)
         THEN cut_default_loop(h, source, deep, fuel, Tail(keys))
         ELSE IF is_default(h, value)
         THEN cut_default_loop(Remove(h, source.n, key),
                               source, deep, fuel, Tail(keys))
         ELSE IF type_check(value, "object")
         THEN Then(cut_default(h, value, NextDeep(deep), fuel - 1), LAMBDA sub :
              IF sub.st # "ok" THEN sub
              ELSE cut_default_loop(sub.h, source, deep, fuel, Tail(keys)))
         ELSE cut_default_loop(h, source, deep, fuel, Tail(keys)))

\* cut_default(source, deep)
cut_default(h, source, deep, fuel) ==
    IF fuel = 0 THEN Throw(h, "RangeError")
    ELSE IF ~type_check(source, "object") THEN Throw(h, "TypeError")
    ELSE IF DepthReached(deep) THEN Return(h, Undef)
    ELSE cut_default_loop(h, source, deep, fuel, KeysOf(h[source.n]))

----------------------------------------------------------------------------
(* The caller: the containers it builds from object literals and the       *)
(* arguments it passes.                                                    *)

\* An entry of an object literal: a key with a scalar or array value ...
Leaf(key, value) == [k |-> key, v |-> value, lit |-> <<>>]

\* ... or with a nested object literal.
Nest(key, lit) == [k |-> key, v |-> [t |-> "literal", n |-> 0, s |-> ""], lit |-> lit]

RECURSIVE AllocLit(_, _)
RECURSIVE FillLit(_, _, _)
\* the entries of a literal evaluated in order into the object at addr
FillLit(h, addr, entries) ==
    IF entries = <<>> THEN h
    ELSE LET e == Head(entries) IN
         IF e.v.t = "literal"
         THEN LET sub == AllocLit(h, e.lit) IN
              FillLit(Store(sub.h, addr, e.k, Ref(sub.addr)), addr, Tail(entries))
         ELSE FillLit(Store(h, addr, e.k, e.v), addr, Tail(entries))

\* Evaluating an object literal: a new object, tree-shaped, sharing nothing.
AllocLit(h, lit) ==
    LET addr == Len(h) + 1 IN
    [h |-> FillLit(Append(h, <<>>), addr, lit), addr |-> addr]

\* The heap when the module has loaded: only NOTHING.object, empty.
ModuleHeap == << <<>> >>

\* The heap and the caller's two containers after it has built them.
Built(target, source) ==
    LET t == AllocLit(ModuleHeap, target)
        s == AllocLit(t.h, source)
    IN [h |-> s.h, held |-> {Ref(t.addr), Ref(s.addr)}]

\* Scalars and arrays a caller stores or passes.
LeafVals ==
    {Undef, Null, NaN, Str(""), Str("hello"), Num(0), Num(42),
     Bool(FALSE), Bool(TRUE), Fn(0), Fn(9), Arr(0), Arr(2)}

\* The pairs of containers a session starts from: the examples of the
\* documentation, and pairs that take the paths the examples leave out.
Sessions ==
    { \* deep_merge: { a: 1, nested: { x: 1, y: 2 } } and { b: 2, nested: { y: 3, z: 4 } }
      << <<Leaf("a", Num(1)), Nest("nested", <<Leaf("x", Num(1)), Leaf("y", Num(2))>>)>>,
         <<Leaf("b", Num(2)), Nest("nested", <<Leaf("y", Num(3)), Leaf("z", Num(4))>>)>> >>,
      \* deep_merge: { arr: [1, 2, 3] } and { arr: [4, 5] }
      << <<Leaf("arr", Arr(3))>>, <<Leaf("arr", Arr(2))>> >>,
      \* deep_merge: { nested: null } and { nested: { a: 1 } }
      << <<Leaf("nested", Null)>>, <<Nest("nested", <<Leaf("a", Num(1))>>)>> >>,
      \* cut_default: { a: "", b: "hello", c: 0, d: 42, nested: { x: [], y: [1, 2] } }
      \* from_object: { a: 1, b: 2, c: 3 }
      << <<Leaf("a", Str("")), Leaf("b", Str("hello")), Leaf("c", Num(0)), Leaf("d", Num(42)),
           Nest("nested", <<Leaf("x", Arr(0)), Leaf("y", Arr(2))>>)>>,
         <<Leaf("a", Num(1)), Leaf("b", Num(2)), Leaf("c", Num(3))>> >>,
      \* cut_default: { a: "", nested: { b: "", deep: { c: "" } } }
      \* purification: { a: "", b: null, c: 42, nested: { d: 0, e: 5 } }
      << <<Leaf("a", Str("")),
           Nest("nested", <<Leaf("b", Str("")), Nest("deep", <<Leaf("c", Str(""))>>)>>)>>,
         <<Leaf("a", Str("")), Leaf("b", Null), Leaf("c", Num(42)),
           Nest("nested", <<Leaf("d", Num(0)), Leaf("e", Num(5))>>)>> >>,
      \* a scalar where the source holds a container, after a key that merges
      << <<Leaf("nested", Num(5))>>,
         <<Leaf("a", Num(1)), Nest("nested", <<Leaf("x", Num(1))>>)>> >>,
      \* cut_default: { str: "", num: 0, bool: false, arr: [], obj: {}, func: undefined }
      << <<Leaf("str", Str("")), Leaf("num", Num(0)), Leaf("bool", Bool(FALSE)),
           Leaf("arr", Arr(0)), Nest("obj", <<>>), Leaf("func", Undef)>>,
         <<Leaf("a", Null), Nest("nested", <<Leaf("a", Null), Leaf("b", NaN)>>)>> >> }

\* The literals with one key or none: the key absent, with one of the
\* values, or with one of the nested literals.
KeyOpts(key, values, lits) ==
    {<<>>} \cup {<<Leaf(key, v)>> : v \in values} \cup {<<Nest(key, l)>> : l \in lits}

\* The literals made of one of the first entries and one of the next.
Concat(first, next) == {a \o b : a \in first, b \in next}

\* Nested containers of a target: empty, holding only defaults, holding a
\* container that holds only defaults, holding none.
Inner ==
    { <<>>,
      <<Leaf("x", Null)>>,
      <<Leaf("x", Num(1)), Leaf("y", Num(2))>>,
      <<Leaf("x", Null), Nest("deep", <<Leaf("c", Str(""))>>)>>,
      <<Nest("deep", <<Leaf("c", Num(7)), Leaf("d", Arr(0))>>)>>,
      <<Leaf("x", Str("")), Nest("deep", <<>>)>> }

\* The targets of a single call: under "a" every kind of value, under
\* "nested" a container of each kind.
Targets ==
    Concat(KeyOpts("a", LeafVals, {<<>>}), KeyOpts("nested", {}, Inner))

\* The sources of a single call.
Sources ==
    Concat({<<Leaf("a", Num(1))>>, <<Nest("a", <<>>)>>, <<Nest("a", <<Leaf("x", Num(2))>>)>>},
           KeyOpts("nested", {},
                   { <<Leaf("y", Num(3)), Leaf("z", Arr(2))>>,
                     <<Nest("x", <<>>), Nest("deep", <<Leaf("c", Num(8))>>)>>,
                     <<Leaf("deep", Num(9))>> }))

\* The depth arguments a caller passes.
Deeps == {-2, -1, 0, 1, 2}

\* The property names a caller asks from_object for.
PropertyLists ==
    {<<>>, <<Str("a")>>, <<Str("a"), Str("c")>>, <<Str("c"), Str("nested")>>,
     <<Str("missing")>>, <<Str("b"), Num(123), Str("c")>>}

\* The type names a caller asks by_type for.
TypeNames ==
    {Str("object"), Str("string"), Str("number"), Str("boolean"), Str("array"),
     Str("function"), Str("null"), Str("undefined"), Str("unknown"), Str("toString"),
     Str(""), Undef}

----------------------------------------------------------------------------
(* The state: the heap, the containers the caller holds, the last public   *)
(* call with the heap it found and its outcome, and the number of calls    *)
(* the session has left.                                                   *)

VARIABLES heap, held, call, left

vars == <<heap, held, call, left>>

\* What the caller passes where a container is expected: one it holds, the
\* exported constant object, or a value that is no keyed container.
ContainerArgs == held \cup {object} \cup {Null, Arr(2)}

\* What the caller passes where any value is accepted.
ValueArgs == LeafVals \cup held \cup {object}

\* The record of a call: the operation, its arguments, the depth argument
\* (-1 where there is none), the heap before, and the outcome.
Called(op, args, deep, out) ==
    [op |-> op, args |-> args, deep |-> deep, pre |-> heap,
     st |-> out.st, r |-> out.r]

\* A public call is made and ends: its outcome becomes the state.
Finish(op, args, deep, out) ==
    /\ left > 0
    /\ heap' = out.h
    /\ held' = IF out.st = "ok" /\ out.r.t = "object" THEN held \cup {out.r} ELSE held
    /\ call' = Called(op, args, deep, out)
    /\ left' = left - 1

NoCall == [op |-> "none", args |-> <<>>, deep |-> -1, pre |-> ModuleHeap,
           st |-> "ok", r |-> Undef]

\* A session of MaxCalls calls on one of the pairs of Sessions.
Init ==
    \E pair \in Sessions :
        /\ heap = Built(pair[1], pair[2]).h
        /\ held = Built(pair[1], pair[2]).held
        /\ call = NoCall
        /\ left = MaxCalls

\* A single call on a target of Targets and a source of Sources.
InitCall ==
    \E target \in Targets, source \in Sources :
        /\ heap = Built(target, source).h
        /\ held = Built(target, source).held
        /\ call = NoCall
        /\ left = 1

ByType ==
    \E type \in TypeNames :
        Finish("by_type", <<type>>, -1, Return(heap, by_type(type)))

ByValue ==
    \E value \in ValueArgs :
        Finish("by_value", <<value>>, -1, Return(heap, by_value(value)))

IsDefault ==
    \E value \in ValueArgs :
        Finish("is_default", <<value>>, -1, Return(heap, Bool(is_default(heap, value))))

SetDefault ==
    \E value \in ValueArgs, default_value \in {Str("fallback"), Num(42)} :
        Finish("set_default", <<value, default_value>>, -1,
               Return(heap, set_default(heap, value, default_value)))

Normalize ==
    \E value \in ValueArgs :
        Finish("normalize", <<value>>, -1, Return(heap, normalize(value)))

FromObject ==
    \E source \in ContainerArgs, properties \in PropertyLists :
        Finish("from_object", <<source>> \o properties, -1,
               from_object(heap, source, properties))

Purification ==
    \E source \in ContainerArgs, deep \in Deeps :
        Finish("purification", <<source>>, deep,
               purification(heap, source, deep, StackLimit))

ShallowMerge ==
    \E target \in ContainerArgs, source \in ContainerArgs :
        Finish("shallow_merge", <<target, source>>, -1,
               shallow_merge(heap, target, source))

DeepMerge ==
    \E target \in ContainerArgs, source \in ContainerArgs, deep \in Deeps :
        Finish("deep_merge", <<target, source>>, deep,
               deep_merge(heap, target, source, deep, StackLimit))

CutDefault ==
    \E source \in ContainerArgs, deep \in Deeps :
        Finish("cut_default", <<source>>, deep,
               cut_default(heap, source, deep, StackLimit))

Next ==
    \/ ByType
    \/ ByValue
    \/ IsDefault
    \/ SetDefault
    \/ Normalize
    \/ FromObject
    \/ Purification
    \/ ShallowMerge
    \/ DeepMerge
    \/ CutDefault

Spec == Init /\ [][Next]_vars

SpecCall == InitCall /\ [][Next]_vars

----------------------------------------------------------------------------
(* Containers as values: what the properties below compare.                *)

RECURSIVE CellsFrom(_, _, _)
\* The addresses met walking down from value, one for each path; 0 where
\* the walk is still inside objects after fuel steps.
CellsFrom(h, value, fuel) ==
    IF value.t # "object" THEN <<>>
    ELSE IF fuel = 0 THEN <<0>>
    ELSE LET cell == h[value.n]
             F[i \in 0..Len(cell)] ==
                 IF i = 0 THEN <<value.n>>
                 ELSE F[i - 1] \o CellsFrom(h, cell[i].v, fuel - 1)
         IN F[Len(cell)]

NoRepeat(seq) == \A i, j \in 1..Len(seq) : seq[i] = seq[j] => i = j

\* The containers under the values are finite trees that share no object.
TreeShaped(h, values) ==
    LET G[i \in 0..Len(values)] ==
            IF i = 0 THEN <<>>
            ELSE G[i - 1] \o CellsFrom(h, values[i], Len(h) + 1)
        cells == G[Len(values)]
    IN NoRepeat(cells) /\ \A i \in 1..Len(cells) : cells[i] # 0

RECURSIVE TreeOf(_, _, _)
\* The value with every container under it replaced by its content, keys
\* without order: a scalar or array as it is, an object as the function
\* from its keys to the trees of its values.
TreeOf(h, value, fuel) ==
    IF value.t # "object" THEN value
    ELSE IF fuel = 0 THEN [t |-> "deeper"]
    ELSE LET cell == h[value.n] IN
         [t |-> "tree",
          kids |-> [key \in {cell[i].k : i \in 1..Len(cell)} |->
                       TreeOf(h, Get(cell, key), fuel - 1)]]

Tree(h, value) == TreeOf(h, value, Len(h) + 1)

EmptyTree == [t |-> "tree", kids |-> <<>>]

IsNode(tree) == tree.t = "tree"

Failed == [t |-> "TypeError"]

\* The canonical default of each type tag, as the documentation lists them.
Canonical ==
    [object |-> Ref(1), string |-> Str(""), number |-> Num(0),
     boolean |-> Bool(FALSE), array |-> Arr(0), function |-> Fn(0),
     null |-> Null, undefined |-> Undef]

\* A tree is a default: an absence marker, an empty array, an empty
\* container, or the canonical default of its scalar type.
DefaultTree(tree) ==
    CASE IsNode(tree) -> DOMAIN tree.kids = {}
      [] tree.t \in {"undefined", "null"} \/ tree = NaN -> TRUE
      [] tree.t = "array" -> tree.n = 0
      [] OTHER -> tree = Canonical[tree.t]

----------------------------------------------------------------------------
(* Properties. *)

Arg(i) == call.args[i]

Did(op) == call.op = op

\* C1: by_type(tag) returns the canonical default of the tag for each of the
\* eight recognized tags ("" for "string", 0 for "number", false for
\* "boolean", null for "null", the empty array, the empty object, the no-op
\* function, undefined) and undefined for every other tag.
C1_ByTypeCanonical ==
    Did("by_type") =>
        /\ call.st = "ok"
        /\ call.r = IF PropertyKey(Arg(1)) \in DOMAIN Canonical
                    THEN Canonical[PropertyKey(Arg(1))]
                    ELSE Undef
        /\ Len(heap[1]) = 0

\* C2: is_default(value) is true for null and undefined, for an array iff
\* its length is 0, for a non-array object iff it has no own enumerable key,
\* and for a scalar iff it is the canonical default of its type.  (NaN, an
\* absence marker in the glossary, is left out of the statement.)
C2_IsDefault ==
    (Did("is_default") /\ Arg(1) # NaN) =>
        call.r = Bool(CASE Arg(1).t \in {"undefined", "null"} -> TRUE
                        [] Arg(1).t = "array" -> Arg(1).n = 0
                        [] Arg(1).t = "object" -> Len(call.pre[Arg(1).n]) = 0
                        [] OTHER -> Arg(1) = Canonical[Arg(1).t])

\* C3: after any sequence of public calls the default table is unchanged:
\* every tag maps to its initial value and the object by_type("object")
\* returns, exported as object, has no own key.
C3_TableUnchanged ==
    /\ \A tag \in DOMAIN NOTHING : NothingGet(Str(tag)) = Canonical[tag]
    /\ object = Ref(1)
    /\ Len(heap[1]) = 0

\* The property names of the last from_object call.
Requested == {Arg(i).s : i \in 2..Len(call.args)}

\* C4: for a keyed container source and string names, from_object returns a
\* container whose keys are exactly the requested names that are own
\* properties of source, each with the value source has; source is left as
\* it was.  This holds for each call of a sequence.  (Stated for the
\* sources the caller built.)
C4_FromObjectExact ==
    (/\ Did("from_object")
     /\ Arg(1).t = "object"
     /\ Arg(1) # object
     /\ \A i \in 2..Len(call.args) : Arg(i).t = "string") =>
        /\ call.st = "ok"
        /\ call.r.t = "object"
        /\ LET src == call.pre[Arg(1).n]
               res == heap[call.r.n]
           IN /\ {res[i].k : i \in 1..Len(res)}
                    = {key \in Requested : HasOwn(src, key)}
              /\ \A key \in Requested : HasOwn(src, key) => Get(res, key) = Get(src, key)
              /\ heap[Arg(1).n] = src

RECURSIVE PurifiedTree(_)
\* The purified copy of a tree: the keys whose value is not a default, a
\* nested container replaced by its own purified copy.
PurifiedTree(tree) ==
    [t |-> "tree",
     kids |-> [key \in {k \in DOMAIN tree.kids : ~DefaultTree(tree.kids[k])} |->
                  IF IsNode(tree.kids[key])
                  THEN PurifiedTree(tree.kids[key])
                  ELSE tree.kids[key]]]

\* C5: for a tree-shaped source and unlimited depth, purification(source)
\* returns a container created by that call (not one that existed before),
\* holding exactly the keys of source whose value is not a default, nested
\* containers purified in turn, other values copied.  (Stated for the
\* sources the caller built.)
C5_PurificationFresh ==
    (/\ Did("purification")
     /\ call.deep = -1
     /\ Arg(1).t = "object"
     /\ Arg(1) # object
     /\ TreeShaped(call.pre, <<Arg(1)>>)) =>
        /\ call.st = "ok"
        /\ call.r.t = "object"
        /\ call.r.n > Len(call.pre)
        /\ TreeShaped(heap, <<call.r>>)
        /\ Tree(heap, call.r) = PurifiedTree(Tree(call.pre, Arg(1)))

RECURSIVE MergeTree(_, _, _)
\* The deep merge of the tree source into the tree target: a key only in
\* target kept; a key of source with a scalar or an array taken from source;
\* a key of source with a container merged into what target has there, one
\* of the values of empties counting as an empty container and any other
\* value that is no container making the merge fail.
MergeTree(target, source, empties) ==
    LET At(key) ==
            IF key \notin DOMAIN source.kids THEN target.kids[key]
            ELSE IF ~IsNode(source.kids[key]) THEN source.kids[key]
            ELSE LET existing == IF key \in DOMAIN target.kids
                                 THEN target.kids[key]
                                 ELSE Undef
                 IN IF IsNode(existing)
                    THEN MergeTree(existing, source.kids[key], empties)
                    ELSE IF existing \in empties
                    THEN MergeTree(EmptyTree, source.kids[key], empties)
                    ELSE Failed
        keys == DOMAIN target.kids \cup DOMAIN source.kids
    IN IF \E key \in keys : At(key).t = "TypeError"
       THEN Failed
       ELSE [t |-> "tree", kids |-> [key \in keys |-> At(key)]]

\* The values JavaScript takes for false.
Falsy == {Undef, Null, NaN, Str(""), Num(0), Bool(FALSE)}

\* The last call is deep_merge with unlimited depth on two tree-shaped
\* containers that share no object.
DeepMergeOfTrees ==
    /\ Did("deep_merge")
    /\ call.deep = -1
    /\ Arg(1).t = "object"
    /\ Arg(2).t = "object"
    /\ TreeShaped(call.pre, <<Arg(1), Arg(2)>>)

\* The call ended as the merge of the two trees with the given empties does:
\* returning target, which now holds the merged tree, or, where the merge
\* fails, raising TypeError.
DeepMergeGives(empties) ==
    LET merged == MergeTree(Tree(call.pre, Arg(1)), Tree(call.pre, Arg(2)), empties) IN
    IF merged = Failed
    THEN call.st = "TypeError"
    ELSE /\ call.st = "ok"
         /\ call.r = Arg(1)
         /\ Tree(heap, Arg(1)) = merged

\* C6 as stated: deep_merge(target, source) returns target with the keys
\* only in target kept, each container of source merged into target's
\* existing value, a missing or undefined existing value counting as an
\* empty container, and every other value of source, arrays included,
\* replacing target's.
C6_DeepMergeClaimed == DeepMergeOfTrees => DeepMergeGives({Undef})

\* C6 as amended: the same, with every falsy existing value (undefined,
\* null, NaN, "", 0, false) counting as an empty container, and TypeError
\* raised where the existing value is a truthy value that is no keyed
\* container.
C6_DeepMergeFalsy == DeepMergeOfTrees => DeepMergeGives(Falsy)

\* C6, witness: a merge that returned, over a target that had null and a
\* source that had a container at the same key, and over a key both had a
\* container at.
C6_Witness ==
    /\ DeepMergeOfTrees
    /\ call.st = "ok"
    /\ \E key \in {"a", "nested"} :
          /\ Get(call.pre[Arg(1).n], key) \in {Null, Str(""), Num(0), Bool(FALSE)}
          /\ Get(call.pre[Arg(2).n], key).t = "object"
          /\ Get(heap[Arg(1).n], key).t = "object"
    /\ \E key \in {"a", "nested"} :
          /\ Get(call.pre[Arg(1).n], key).t = "object"
          /\ Get(call.pre[Arg(2).n], key).t = "object"
          /\ Len(call.pre[Get(call.pre[Arg(1).n], key).n]) > 0
          /\ Len(call.pre[Get(call.pre[Arg(2).n], key).n]) > 0

RECURSIVE CutTree(_)
\* A tree with its defaults cut: the keys whose value is a default deleted,
\* a nested container that stays cut in turn, left in place even when that
\* empties it.
CutTree(tree) ==
    [t |-> "tree",
     kids |-> [key \in {k \in DOMAIN tree.kids : ~DefaultTree(tree.kids[k])} |->
                  IF IsNode(tree.kids[key])
                  THEN CutTree(tree.kids[key])
                  ELSE tree.kids[key]]]

\* C7: for a tree-shaped source and unlimited depth, cut_default(source)
\* deletes from source each key whose value was a default before the call
\* (null, undefined, "", 0, false, empty array, empty object), keeps every
\* other value, and strips the nested containers that stay in turn.
C7_CutDefault ==
    (/\ Did("cut_default")
     /\ call.deep = -1
     /\ Arg(1).t = "object"
     /\ TreeShaped(call.pre, <<Arg(1)>>)) =>
        /\ call.st = "ok"
        /\ Tree(heap, Arg(1)) = CutTree(Tree(call.pre, Arg(1)))

\* C8: a call of from_object, shallow_merge, deep_merge, purification or
\* cut_default that raises has changed nothing: every object that existed
\* before the call, the shared object among them, is as it was.
C8_RaiseBeforeMutation ==
    (/\ call.op \in {"from_object", "shallow_merge", "deep_merge",
                     "purification", "cut_default"}
     /\ call.st # "ok") =>
        /\ call.st = "TypeError"
        /\ \A addr \in 1..Len(call.pre) : heap[addr] = call.pre[addr]

\* C9: by_value(value) is by_type of the type tag of value, an array going
\* under "array" before "object": the empty array for an array, the empty
\* object for another object, "", 0 and false for a string, a number and a
\* boolean.
C9_ByValue ==
    (Did("by_value") /\ Arg(1).t \in {"array", "object", "string", "number", "boolean"}) =>
        /\ call.r = Canonical[Arg(1).t]
        /\ call.r.t = "object" => Len(heap[call.r.n]) = 0

\* C10: normalize(value) is null for null, undefined and NaN, and value
\* itself for every other value, "", 0, false and empty containers included.
C10_Normalize ==
    Did("normalize") =>
        call.r = IF Arg(1).t \in {"undefined", "null"} \/ Arg(1) = NaN
                 THEN Null
                 ELSE Arg(1)

\* The depths below zero a caller passes.
Negative == {deep \in Deeps : deep < 0}

RECURSIVE MergeDepth(_, _, _, _)
\* The deep merge of the tree source into target with a depth budget, the
\* depths of unlimited standing for no limit: with the budget used up target
\* as it is, whatever it is; otherwise as MergeTree with the falsy values
\* for empty containers, each descent into a container of source using one
\* unit.
MergeDepth(target, source, deep, unlimited) ==
    IF deep <= 0 /\ deep \notin unlimited THEN target
    ELSE IF ~IsNode(target) THEN Failed
    ELSE LET At(key) ==
                 IF key \notin DOMAIN source.kids THEN target.kids[key]
                 ELSE IF ~IsNode(source.kids[key]) THEN source.kids[key]
                 ELSE LET existing == IF key \in DOMAIN target.kids
                                      THEN target.kids[key]
                                      ELSE Undef
                      IN MergeDepth(IF existing \in Falsy THEN EmptyTree ELSE existing,
                                    source.kids[key],
                                    IF deep \in unlimited THEN deep ELSE deep - 1,
                                    unlimited)
             keys == DOMAIN target.kids \cup DOMAIN source.kids
         IN IF \E key \in keys : At(key).t = "TypeError"
            THEN Failed
            ELSE [t |-> "tree", kids |-> [key \in keys |-> At(key)]]

\* The last call is deep_merge, with any depth, on two tree-shaped
\* containers that share no object.
DeepMergeAtDepth ==
    /\ Did("deep_merge")
    /\ Arg(1).t = "object"
    /\ Arg(2).t = "object"
    /\ TreeShaped(call.pre, <<Arg(1), Arg(2)>>)

\* The call ended as the merge with the depth budget does: returning
\* target, which now holds the merged tree, or raising TypeError.
DepthGives(unlimited) ==
    LET merged == MergeDepth(Tree(call.pre, Arg(1)), Tree(call.pre, Arg(2)),
                             call.deep, unlimited) IN
    IF merged = Failed
    THEN call.st = "TypeError"
    ELSE /\ call.st = "ok"
         /\ call.r = Arg(1)
         /\ Tree(heap, Arg(1)) = merged

\* C11 as stated: deep_merge with depth 0 returns target unmodified; with
\* any negative depth the merge is unlimited, as with the default depth;
\* with a positive depth d each descent into a nested container uses one
\* unit, so the first d nesting levels are merged and no more.
C11_DepthAnyNegative == DeepMergeAtDepth => DepthGives(Negative)

\* C11 as amended: the same, with -1 the only depth that is unlimited; any
\* other negative depth, as depth 0, returns target unmodified.  Where the
\* budget ends at a container of source, target's existing value stays as
\* it is, an empty container standing where it was missing or falsy.
C11_DepthMinusOne == DeepMergeAtDepth => DepthGives({-1})

\* C11, witness: a merge with depth 1 that returned, over a target and a
\* source that both had a non-empty container at "nested": target's was
\* left as it was, where the unlimited merge changes it.
C11_Witness ==
    /\ DeepMergeAtDepth
    /\ call.deep = 1
    /\ call.st = "ok"
    /\ Get(call.pre[Arg(1).n], "nested").t = "object"
    /\ Get(call.pre[Arg(2).n], "nested").t = "object"
    /\ Len(call.pre[Get(call.pre[Arg(2).n], "nested").n]) > 0
    /\ Tree(heap, Get(heap[Arg(1).n], "nested"))
          = Tree(call.pre, Get(call.pre[Arg(1).n], "nested"))
    /\ Tree(heap, Arg(1))
          # MergeTree(Tree(call.pre, Arg(1)), Tree(call.pre, Arg(2)), Falsy)

RECURSIVE CutEmpty(_, _)
\* A tree with its empty containers cut, down to the levels the depth
\* budget reaches: a key holding an empty container deleted, a container
\* that stays cut in turn and left in place even when that empties it,
\* every other value kept.
CutEmpty(tree, deep) ==
    IF deep <= 0 /\ deep # -1 THEN tree
    ELSE LET Empty(kid) == IsNode(kid) /\ DOMAIN kid.kids = {} IN
         [t |-> "tree",
          kids |-> [key \in {k \in DOMAIN tree.kids : ~Empty(tree.kids[k])} |->
                       IF IsNode(tree.kids[key])
                       THEN CutEmpty(tree.kids[key], IF deep = -1 THEN -1 ELSE deep - 1)
                       ELSE tree.kids[key]]]

\* The last call is cut_default on a tree-shaped container, and it returned.
CutOnce ==
    /\ Did("cut_default")
    /\ call.st = "ok"
    /\ Arg(1).t = "object"
    /\ TreeShaped(call.pre, <<Arg(1)>>)

\* cut_default applied again, now, to the same container with the same depth.
CutAgain == cut_default(heap, Arg(1), call.deep, StackLimit)

\* C12 as stated: cut_default is idempotent: once cut_default(x) has run on
\* a tree-shaped container x, running it again with the same depth changes
\* nothing in x at any nesting level.
C12_CutDefaultIdempotent ==
    CutOnce => (CutAgain.st = "ok" /\ CutAgain.h = heap)

\* C12 as amended: the second application deletes, down to the levels the
\* depth reaches, the keys holding a container the first application left
\* empty, and changes nothing else: no other key of x and no other object.
C12_CutDefaultEmptied ==
    CutOnce =>
        /\ CutAgain.st = "ok"
        /\ Len(CutAgain.h) = Len(heap)
        /\ Tree(CutAgain.h, Arg(1)) = CutEmpty(Tree(heap, Arg(1)), call.deep)
        /\ \A addr \in 1..Len(heap) :
              (\A i \in 1..Len(CellsFrom(heap, Arg(1), Len(heap) + 1)) :
                  CellsFrom(heap, Arg(1), Len(heap) + 1)[i] # addr)
              => CutAgain.h[addr] = heap[addr]

\* C12, witness: cut_default has emptied the container at "nested", which
\* held a key before, and left it in place; applied again it deletes it.
C12_Witness ==
    /\ CutOnce
    /\ Get(heap[Arg(1).n], "nested").t = "object"
    /\ Len(call.pre[Get(heap[Arg(1).n], "nested").n]) > 0
    /\ Len(heap[Get(heap[Arg(1).n], "nested").n]) = 0
    /\ ~HasOwn(CutAgain.h[Arg(1).n], "nested")

\* The last call is purification with unlimited depth on a tree-shaped
\* container, it returned, and the call being made is purification of what
\* it returned.
PurifiedTwice ==
    /\ Did("purification")
    /\ call.deep = -1
    /\ call.st = "ok"
    /\ Arg(1).t = "object"
    /\ Arg(1) # object
    /\ TreeShaped(call.pre, <<Arg(1)>>)
    /\ call'.op = "purification"
    /\ call'.deep = -1
    /\ call'.args = <<call.r>>

\* C13: purification is idempotent: for every tree-shaped keyed container
\* x, purification(purification(x)) returns a value structurally equal to
\* purification(x).
C13_PurificationIdempotent ==
    [][PurifiedTwice =>
          /\ call'.st = "ok"
          /\ Tree(heap', call'.r) = Tree(heap, call.r)]_vars

\* The call being made is deep_merge, purification or cut_default, and
\* every container it is given is one the caller holds: one it built as a
\* finite tree, or one an earlier call returned.
RecursiveCall ==
    /\ call'.op \in {"deep_merge", "purification", "cut_default"}
    /\ \A i \in 1..Len(call'.args) :
          call'.args[i].t = "object" => call'.args[i] \in held

\* C14: every call of deep_merge, purification or cut_default on finite
\* tree-shaped containers the caller built, or on values earlier calls of
\* the library returned, terminates, its recursion no deeper than the
\* nesting of the data or the depth budget: the stack is never exhausted.
C14_Terminates ==
    [][RecursiveCall => call'.st # "RangeError"]_vars

====
